---- MODULE Spec2Model ----
(***************************************************************************)
(* State-machine model of src/ai_recruitment_agent_team.py, a Streamlit    *)
(* script.  Every widget interaction re-executes the script from the top:  *)
(* one action of the model is one such script run, with the widget that    *)
(* triggered it.  st.session_state survives the runs; module-level names   *)
(* (config, scheduled_interviews) are re-bound by every run.               *)
(***************************************************************************)
EXTENDS Integers, Sequences, FiniteSets, TLC

\* ------------------------------------------------------------------ bounds
\* Largest value of total_resumes_uploaded the model explores.
MaxResumes == 2

\* ------------------------------------------------------- program constants
\* timedelta(days=3) of the date picker's min_value.
MinNoticeDays == 3
\* range(9, 17) of available_time_slots.
FirstHour == 9
EndHour == 17

\* Keys of ROLE_REQUIREMENTS.
ROLE_REQUIREMENTS ==
    {"ai_ml_engineer", "full_stack_engineer", "frontend_engineer", "backend_engineer"}

\* Options of the role selectbox; the first is the placeholder.
RoleOptions == {"Select a role"} \cup ROLE_REQUIREMENTS

\* Keys of the dictionary configure_sidebar returns.
ConfigKeys ==
    {"openai_api_key", "zoom_account_id", "zoom_client_id", "zoom_client_secret",
     "sender_email", "email_app_password", "company_name"}

\* Value of a filled-in sidebar field.
Filled == "set"

\* Sidebar contents the operator types in: nothing, or every field.
ConfigChoices ==
    { [k \in ConfigKeys |-> ""], [k \in ConfigKeys |-> Filled] }

\* Value of the "Candidate Email" text input.
Emails == {"candidate@example.com"}

\* The absent value (Python None, a key missing from st.session_state).
None == "None"

\* A text is a sequence of pieces of text, each a run of characters that
\* the model does not split; two pieces are the same run of characters
\* exactly when they are equal, letter case included.
\* The identifier of a role, piece by piece.
RoleText(role) ==
    CASE role = "ai_ml_engineer"      -> <<"ai_ml", "_engineer">>
      [] role = "full_stack_engineer" -> <<"full_stack", "_engineer">>
      [] role = "frontend_engineer"   -> <<"frontend", "_engineer">>
      [] role = "backend_engineer"    -> <<"backend", "_engineer">>
      [] OTHER                        -> <<"Select a", " role">>

\* Uploaded PDF files, and what extract_text_from_pdf returns for each.
\* File 2 names a role in another letter case, file 3 has no extractable
\* text.
ResumeFiles == {1, 2, 3}

extract_text_from_pdf(f) ==
    CASE f = 1 -> <<"python ", "backend", "_engineer", "s">>
      [] f = 2 -> <<"Frontend", "_Engineer", " react">>
      [] OTHER -> <<>>

\* Python's `needle in text` on strings: needle occurs in text as a
\* contiguous run, starting after some offset.
Contains(text, needle) ==
    \E offset \in 0..(Len(text) - Len(needle)) :
        SubSeq(text, offset + 1, offset + Len(needle)) = needle

\* A failing variant: the letter case is ignored.
analyze_resume_ignoring_case(resume_text, role) ==
    LET Lower(piece) ==
            CASE piece = "Backend"   -> "backend"
              [] piece = "Frontend"  -> "frontend"
              [] piece = "_Engineer" -> "_engineer"
              [] piece = "Select a"  -> "select a"
              [] OTHER               -> piece
    IN Contains([i \in 1..Len(resume_text) |-> Lower(resume_text[i])],
                [i \in 1..Len(RoleText(role)) |-> Lower(RoleText(role)[i])])

\* analyze_resume: the decision (the feedback text is display only).
analyze_resume(resume_text, role) == Contains(resume_text, RoleText(role))

\* analyze_resume: the feedback next to the decision.  The text of an
\* acceptance names the role analysed and is modelled by that role; the text
\* of a rejection is fixed.
analyze_resume_feedback(is_selected, role) ==
    IF is_selected THEN role ELSE "mismatch"

\* ------------------------------------------------------------------ metrics
\* st.session_state.metrics as initialize_metrics builds it.
initialize_metrics ==
    [ total_resumes_uploaded |-> 0,
      selected_candidates    |-> 0,
      interviews_scheduled   |-> 0,
      applications_by_role   |-> [r \in ROLE_REQUIREMENTS |-> 0],
      selected               |-> [r \in ROLE_REQUIREMENTS |-> 0],
      interviewed            |-> [r \in ROLE_REQUIREMENTS |-> 0] ]

\* A failing variant: a selection is counted without counting the
\* application it belongs to.
update_metrics_uncounted_selection(m, role, is_selected) ==
    LET m1 == [m EXCEPT !.total_resumes_uploaded = @ + 1] IN
    IF role \notin DOMAIN m.applications_by_role
    THEN [metrics |-> m1, raised |-> TRUE]
    ELSE IF is_selected
         THEN [metrics |-> [m1 EXCEPT !.selected_candidates = @ + 1,
                                      !.selected[role] = @ + 1,
                                      !.interviews_scheduled = @ + 1,
                                      !.interviewed[role] = @ + 1],
               raised |-> FALSE]
         ELSE [metrics |-> [m1 EXCEPT !.applications_by_role[role] = @ + 1],
               raised |-> FALSE]

\* A failing variant: a selection is counted without its interview.
update_metrics_selected_only(m, role, is_selected) ==
    LET m1 == [m EXCEPT !.total_resumes_uploaded = @ + 1] IN
    IF role \notin DOMAIN m.applications_by_role
    THEN [metrics |-> m1, raised |-> TRUE]
    ELSE LET m2 == [m1 EXCEPT !.applications_by_role[role] = @ + 1] IN
         IF is_selected
         THEN [metrics |-> [m2 EXCEPT !.selected_candidates = @ + 1,
                                      !.selected[role] = @ + 1],
               raised |-> FALSE]
         ELSE [metrics |-> m2, raised |-> FALSE]

\* update_metrics(role, is_selected): the metrics it leaves and whether it
\* raised.  The total is incremented before applications_by_role[role] is
\* looked up, so a role that is no key of the dictionary raises KeyError
\* with the total already incremented.
update_metrics(m, role, is_selected) ==
    LET m1 == [m EXCEPT !.total_resumes_uploaded = @ + 1] IN
    IF role \notin DOMAIN m.applications_by_role
    THEN [metrics |-> m1, raised |-> TRUE]
    ELSE LET m2 == [m1 EXCEPT !.applications_by_role[role] = @ + 1] IN
         IF is_selected
         THEN [metrics |-> [m2 EXCEPT !.selected_candidates = @ + 1,
                                      !.selected[role] = @ + 1,
                                      !.interviews_scheduled = @ + 1,
                                      !.interviewed[role] = @ + 1],
               raised |-> FALSE]
         ELSE [metrics |-> m2, raised |-> FALSE]

\* -------------------------------------------------------------------- slots
\* A failing variant: range(9, 18), the slot at 5 PM included.
available_time_slots_until_five(selected_date) ==
    [i \in 1..(EndHour - FirstHour + 1) |->
        [date |-> selected_date, hour |-> FirstHour + i - 1]]

\* available_time_slots(selected_date): one slot per hour of range(9, 17).
available_time_slots(selected_date) ==
    [i \in 1..(EndHour - FirstHour) |->
        [date |-> selected_date, hour |-> FirstHour + i - 1]]

\* Days of the date picker's calendar, counted from the day of the script
\* run: today up to the day after the earliest permitted one.
PickerDays == 0..(MinNoticeDays + 1)

\* A failing variant: the date picker has no min_value.
DateChoices_any_day == PickerDays

\* The date the operator picks: the date picker lets through no day before
\* its min_value, today + timedelta(days=3).
DateChoices == {d \in PickerDays : d >= MinNoticeDays}

\* Slots the operator can have chosen in the slot selectbox: the first and
\* the last of the list.
SlotChoices ==
    { available_time_slots(d)[i] :
        d \in DateChoices, i \in {1, EndHour - FirstHour} }

\* ----------------------------------------------------------- external calls
\* One observable step of a script run: a call that leaves the process, a
\* state update or a message shown to the operator, with its result.
Ev(name, res) == [ev |-> name, res |-> res]

\* What the SMTP exchange of send_email / send_rejection_email can end in:
\* the try block completes, or an exception is caught and logged.  Gmail
\* refuses a login with an empty address or password.
MailOutcomes(cfg) ==
    IF cfg["sender_email"] = "" \/ cfg["email_app_password"] = ""
    THEN {"failed"}
    ELSE {"sent", "failed"}

\* What the token endpoint can answer: an error status (raise_for_status
\* raises), a 2xx body without access_token, a 2xx body with one.  Empty
\* credentials are refused.
TokenResponses(cfg) ==
    IF cfg["zoom_account_id"] = "" \/ cfg["zoom_client_id"] = ""
       \/ cfg["zoom_client_secret"] = ""
    THEN {"non2xx"}
    ELSE {"non2xx", "no_access_token", "access_token"}

\* What the meeting endpoint can answer.
MeetingResponses == {"non2xx", "no_join_url", "join_url"}

\* The two answers one booking can meet: the meeting endpoint refuses a
\* request that carries no token.
ZoomExchanges(cfg) ==
    { x \in TokenResponses(cfg) \X MeetingResponses :
        x[1] # "access_token" => x[2] = "non2xx" }

\* A failing variant: the token response is not checked before the meeting
\* request is posted.
schedule_zoom_meeting_unchecked_token(tokenResp, meetingResp) ==
    LET meeting_link == IF meetingResp = "join_url" THEN "join_url" ELSE None
    IN [ meeting_link |-> meeting_link,
         events |-> << Ev("token_request", tokenResp),
                       Ev("meeting_request", meetingResp),
                       Ev("meeting_link", meeting_link) >> ]

\* A failing variant: a token request that failed is sent a second time.
schedule_zoom_meeting_retrying(tokenResp, meetingResp) ==
    IF tokenResp # "access_token"
    THEN [ meeting_link |-> None,
           events |-> << Ev("token_request", tokenResp),
                         Ev("token_request", tokenResp),
                         Ev("meeting_link", None) >> ]
    ELSE LET meeting_link == IF meetingResp = "join_url" THEN "join_url" ELSE None
         IN [ meeting_link |-> meeting_link,
              events |-> << Ev("token_request", tokenResp),
                            Ev("meeting_request", meetingResp),
                            Ev("meeting_link", meeting_link) >> ]

\* schedule_zoom_meeting: the link it returns (None after any exception) and
\* its steps in order: the requests it posted, then the value it returned.
schedule_zoom_meeting(tokenResp, meetingResp) ==
    IF tokenResp # "access_token"
    THEN [ meeting_link |-> None,
           events |-> << Ev("token_request", tokenResp),
                         Ev("meeting_link", None) >> ]
    ELSE LET meeting_link == IF meetingResp = "join_url" THEN "join_url" ELSE None
         IN [ meeting_link |-> meeting_link,
              events |-> << Ev("token_request", tokenResp),
                            Ev("meeting_request", meetingResp),
                            Ev("meeting_link", meeting_link) >> ]

\* schedule_interview: append to the module-level list.
schedule_interview(ledger, candidate_email, role, selected_slot) ==
    Append(ledger, [Email |-> candidate_email, Role |-> role,
                    Date |-> selected_slot.date, Time |-> selected_slot.hour])

\* A failing variant: the result of the booking is not tested.
AfterBooking_ignores_link(meeting_link, intMail) ==
    << Ev("send_interview_email", intMail),
       Ev("st.success", "Interview scheduling email has been sent"),
       Ev("schedule_interview", "appended") >>

\* The branch on meeting_link of the scheduling handler (lines 638-646).
AfterBooking(meeting_link, intMail) ==
    IF meeting_link # None
    THEN << Ev("send_interview_email", intMail),
            Ev("st.success", "Interview scheduling email has been sent"),
            Ev("schedule_interview", "appended") >>
    ELSE << Ev("st.error", "Failed to schedule Zoom meeting") >>

\* A failing variant: both e-mails leave before the booking.
ScheduleSteps_mail_first(selMail, zoom, intMail) ==
    << Ev("send_selection_email", selMail), Ev("send_interview_email", intMail) >>
    \o zoom.events
    \o (IF zoom.meeting_link # None
        THEN << Ev("st.success", "Interview scheduling email has been sent"),
                Ev("schedule_interview", "appended") >>
        ELSE << Ev("st.error", "Failed to schedule Zoom meeting") >>)

\* A failing variant: a selection e-mail that could not be sent ends the
\* handler's steps.
ScheduleSteps_mail_fatal(selMail, zoom, intMail) ==
    IF selMail = "failed"
    THEN << Ev("send_selection_email", selMail) >>
    ELSE << Ev("send_selection_email", selMail) >>
         \o zoom.events
         \o AfterBooking(zoom.meeting_link, intMail)

\* The body of the "Send Email and Schedule Interview" handler up to the
\* metrics update (lines 626-646): selection e-mail, booking, branch.
ScheduleSteps(selMail, zoom, intMail) ==
    << Ev("send_selection_email", selMail) >>
    \o zoom.events
    \o AfterBooking(zoom.meeting_link, intMail)

HasEvent(events, name) == \E i \in 1..Len(events) : events[i].ev = name

CountEvent(events, name) == Cardinality({i \in 1..Len(events) : events[i].ev = name})

\* -------------------------------------------------------------------- state
VARIABLES
    role,                 \* value of the role selectbox handed on to the handlers
    config,               \* the sidebar fields, as configure_sidebar returns them
    resume_file,          \* the file in the uploader, NoFile when it is empty
    session,              \* st.session_state: resume_text, is_selected, feedback
    metrics,              \* st.session_state.metrics
    scheduled_interviews, \* the module-level list, as the last script run left it
    run,                  \* the last script run: its button, its steps, its
                          \* exception, the slots it passed to schedule_zoom_meeting
    phase,                \* history: where the current candidate's workflow stands
    recorded,             \* history: update_metrics calls per role passed
    call                  \* the last direct call of a pure function, NoCall if none

vars == <<role, config, resume_file, session, metrics, scheduled_interviews,
          run, phase, recorded, call>>

\* st.file_uploader returns None while no file is chosen.
NoFile == 0

\* A script run that did nothing but redraw: button is the button pressed,
\* None when another widget triggered the run.
Redraw(button) ==
    [handler |-> button, events |-> <<>>, raised |-> None, slots |-> {}]

\* Lines 583-586, executed by every script run: with a file in the uploader
\* its text is stored under st.session_state.resume_text.
StoreResumeText(ss, file) ==
    IF file # NoFile
    THEN [ss EXCEPT !.keys = @ \cup {"resume_text"},
                    !.resume_text = extract_text_from_pdf(file)]
    ELSE ss

\* Line 347, executed by every script run: the list starts empty.
FreshLedger == <<>>

\* No function has been called on its own.
NoCall == [fn |-> None, arg |-> None, result |-> None, nth |-> 0]

Init ==
    /\ role = "Select a role"
    /\ config = [k \in ConfigKeys |-> ""]
    /\ resume_file = NoFile
    /\ session = [keys |-> {}, resume_text |-> <<>>, is_selected |-> FALSE,
                  feedback |-> None]
    /\ metrics = initialize_metrics
    /\ scheduled_interviews = FreshLedger
    /\ run = Redraw(None)
    /\ phase = "NoCandidate"
    /\ recorded = [r \in RoleOptions |-> 0]
    /\ call = NoCall

\* A script run triggered by a widget that no handler reads: the sliders,
\* the tab selector, "Check Configuration", "Show Analytics", the date, slot
\* and confirmation widgets.
RedrawOnly ==
    /\ run' = Redraw(None)
    /\ scheduled_interviews' = FreshLedger
    /\ session' = StoreResumeText(session, resume_file)
    /\ UNCHANGED <<call, role, config, resume_file, metrics, phase, recorded>>

\* The operator fills in the sidebar.
ConfigureSidebar(cfg) ==
    /\ cfg # config
    /\ config' = cfg
    /\ run' = Redraw(None)
    /\ scheduled_interviews' = FreshLedger
    /\ session' = StoreResumeText(session, resume_file)
    /\ UNCHANGED <<call, role, resume_file, metrics, phase, recorded>>

\* A failing variant: "Reset Configuration" also starts the metrics afresh.
ResetConfiguration_clears_metrics ==
    /\ config' = [k \in ConfigKeys |->
                    IF k = "zoom_client_id" THEN config[k] ELSE ""]
    /\ config' # config
    /\ run' = Redraw("Reset Configuration")
    /\ scheduled_interviews' = FreshLedger
    /\ session' = StoreResumeText(session, resume_file)
    /\ metrics' = initialize_metrics
    /\ UNCHANGED <<call, role, resume_file, phase, recorded>>

\* "Reset Configuration": the flag is set, the script reruns and blanks the
\* fields; line 222 writes the key " sidebar_zoom_client_id" (leading
\* blank), so the Zoom client id keeps its value.
ResetConfiguration ==
    /\ config' = [k \in ConfigKeys |->
                    IF k = "zoom_client_id" THEN config[k] ELSE ""]
    /\ config' # config
    /\ run' = Redraw("Reset Configuration")
    /\ scheduled_interviews' = FreshLedger
    /\ session' = StoreResumeText(session, resume_file)
    /\ UNCHANGED <<call, role, resume_file, metrics, phase, recorded>>

\* The role selectbox (line 531; under the "Coding Assessment" tab the
\* selectbox of line 576 overwrites the same local).
SelectRole(r) ==
    /\ r # role
    /\ role' = r
    /\ run' = Redraw(None)
    /\ scheduled_interviews' = FreshLedger
    /\ session' = StoreResumeText(session, resume_file)
    /\ UNCHANGED <<call, config, resume_file, metrics, phase, recorded>>

\* A file is put into the uploader, or taken out of it (f = NoFile).
UploadResume(f) ==
    /\ f # resume_file
    /\ resume_file' = f
    /\ run' = Redraw(None)
    /\ scheduled_interviews' = FreshLedger
    /\ session' = StoreResumeText(session, f)
    /\ phase' = IF f = NoFile THEN phase ELSE "Uploaded"
    /\ UNCHANGED <<call, role, config, metrics, recorded>>

\* "Add New Application" (lines 524-527): resume_text is blanked and the
\* script reruns; the rerun stores the text of the file still in the
\* uploader again.  is_selected is not touched.
AddNewApplication ==
    /\ run' = Redraw("Add New Application")
    /\ scheduled_interviews' = FreshLedger
    /\ session' = StoreResumeText(
                     [session EXCEPT !.keys = @ \cup {"resume_text"},
                                     !.resume_text = <<>>],
                     resume_file)
    /\ phase' = IF resume_file = NoFile THEN "NoCandidate" ELSE "Uploaded"
    /\ UNCHANGED <<call, role, config, resume_file, metrics, recorded>>

\* What update_metrics reports into the steps of a run.
MetricsStep(um) == Ev("update_metrics", IF um.raised THEN "KeyError" ELSE "recorded")

\* "Analyze Resume" (lines 592-609), available while a file is in the
\* uploader.  The decision is stored in the session; a rejected resume is
\* recorded and the rejection e-mail sent, an accepted one is neither
\* recorded nor answered here.  update_metrics raising ends the script run
\* before the rejection e-mail.
AnalyzeResume(candidate_email, mail) ==
    /\ resume_file # NoFile
    /\ LET resume_text == extract_text_from_pdf(resume_file)
           is_selected == analyze_resume(resume_text, role)
           feedback    == analyze_resume_feedback(is_selected, role)
           um          == update_metrics(metrics, role, is_selected)
       IN /\ session' = [StoreResumeText(session, resume_file)
                            EXCEPT !.keys = @ \cup {"is_selected", "feedback"},
                                   !.is_selected = is_selected,
                                   !.feedback = feedback]
          /\ scheduled_interviews' = FreshLedger
          /\ IF is_selected
             THEN /\ run' = [handler |-> "Analyze Resume",
                             events |-> <<Ev("st.success", "Selected")>>,
                             raised |-> None, slots |-> {}]
                  /\ phase' = "Accepted"
                  /\ UNCHANGED <<metrics, recorded>>
             ELSE /\ metrics.total_resumes_uploaded < MaxResumes
                  /\ metrics' = um.metrics
                  /\ recorded' = [recorded EXCEPT ![role] = @ + 1]
                  /\ run' = [handler |-> "Analyze Resume",
                             events |->
                                <<Ev("st.error", "Not selected"), MetricsStep(um)>>
                                \o (IF um.raised THEN <<>>
                                    ELSE <<Ev("send_rejection_email", mail)>>),
                             raised |-> IF um.raised THEN "KeyError" ELSE None,
                             slots |-> {}]
                  /\ phase' = "Rejected"
    /\ UNCHANGED <<call, role, config, resume_file>>

\* "Send Email and Schedule Interview" (lines 611-648), shown while the
\* session holds resume_text and a true is_selected.  resume_text and
\* candidate_email are locals bound only with a file in the uploader:
\* without one the handler raises at line 625; with an empty text it does
\* nothing.  Otherwise: selection e-mail, booking, on a link the interview
\* e-mail and the ledger entry, and in every case update_metrics(role, True).
ScheduleInterview(candidate_email, selected_slot, selMail, tokenResp, meetingResp, intMail) ==
    /\ {"resume_text", "is_selected"} \subseteq session.keys
    /\ session.is_selected
    /\ session' = StoreResumeText(session, resume_file)
    /\ UNCHANGED <<call, role, config, resume_file>>
    /\ IF resume_file = NoFile
       THEN /\ run' = [handler |-> "Send Email and Schedule Interview",
                       events |-> <<>>, raised |-> "UnboundLocalError",
                       slots |-> {}]
            /\ scheduled_interviews' = FreshLedger
            /\ UNCHANGED <<metrics, phase, recorded>>
       ELSE IF extract_text_from_pdf(resume_file) = <<>>
       THEN /\ run' = [handler |-> "Send Email and Schedule Interview",
                       events |-> <<>>, raised |-> None, slots |-> {}]
            /\ scheduled_interviews' = FreshLedger
            /\ UNCHANGED <<metrics, phase, recorded>>
       ELSE LET zoom   == schedule_zoom_meeting(tokenResp, meetingResp)
                steps  == ScheduleSteps(selMail, zoom, intMail)
                um     == update_metrics(metrics, role, session.is_selected)
                booked == HasEvent(steps, "schedule_interview")
            IN /\ metrics.total_resumes_uploaded < MaxResumes
               /\ run' = [handler |-> "Send Email and Schedule Interview",
                          events |-> steps \o <<MetricsStep(um)>>,
                          raised |-> IF um.raised THEN "KeyError" ELSE None,
                          slots |-> {selected_slot}]
               /\ scheduled_interviews' =
                     IF booked
                     THEN schedule_interview(FreshLedger, candidate_email, role,
                                             selected_slot)
                     ELSE FreshLedger
               /\ metrics' = um.metrics
               /\ recorded' = [recorded EXCEPT ![role] = @ + 1]
               /\ phase' = IF zoom.meeting_link # None
                           THEN "Notified" ELSE "BookingFailed"

\* What one click of "Send Email and Schedule Interview" meets: the slot
\* chosen and the answers of the mail server and of Zoom.  The answer to
\* the interview e-mail counts only when Zoom returned a link (line 638),
\* and a handler that stops at line 625 meets none of them: one value
\* stands for all where the handler reads none.
ScheduleInputs ==
    LET all  == { [slot |-> slot, selMail |-> selMail, zoom |-> zoom,
                   intMail |-> intMail] :
                     slot \in SlotChoices, selMail \in MailOutcomes(config),
                     zoom \in ZoomExchanges(config),
                     intMail \in MailOutcomes(config) }
        read == { x \in all : x.zoom[2] # "join_url" => x.intMail = "failed" }
    IN IF resume_file = NoFile \/ extract_text_from_pdf(resume_file) = <<>>
       THEN { CHOOSE x \in read : TRUE }
       ELSE read

Next ==
    \/ RedrawOnly
    \/ \E cfg \in ConfigChoices : ConfigureSidebar(cfg)
    \/ ResetConfiguration
    \/ \E r \in RoleOptions : SelectRole(r)
    \/ \E f \in ResumeFiles \cup {NoFile} : UploadResume(f)
    \/ AddNewApplication
    \/ \E e \in Emails, mail \in MailOutcomes(config) : AnalyzeResume(e, mail)
    \/ \E e \in Emails, x \in ScheduleInputs :
            ScheduleInterview(e, x.slot, x.selMail, x.zoom[1], x.zoom[2], x.intMail)

Spec == Init /\ [][Next]_vars

\* ------------------------------------------------- the functions on their own
\* Dates handed to available_time_slots, in days from today.
MaxDate == 4
Dates == 0..MaxDate

\* available_time_slots(d) called on its own, from any state of the module:
\* the function reads its argument only and writes nothing.  nth tells a
\* call from the one before it.
CallSlots(d) ==
    /\ call' = [fn |-> "available_time_slots", arg |-> d,
                result |-> available_time_slots(d),
                nth |-> IF call.nth = 1 THEN 2 ELSE 1]
    /\ UNCHANGED <<role, config, resume_file, session, metrics,
                   scheduled_interviews, run, phase, recorded>>

\* Resume texts handed to analyze_resume: up to MaxTextLen pieces.
MaxTextLen == 3
TextPieces == {"backend", "Backend", "_engineer"}
Texts == UNION { [1..n -> TextPieces] : n \in 0..MaxTextLen }

\* analyze_resume(text, r) called on its own.
CallAnalyze(text, r) ==
    /\ call' = [fn |-> "analyze_resume", arg |-> <<text, r>>,
                result |-> analyze_resume(text, r),
                nth |-> IF call.nth = 1 THEN 2 ELSE 1]
    /\ UNCHANGED <<role, config, resume_file, session, metrics,
                   scheduled_interviews, run, phase, recorded>>

PureNext ==
    \/ \E d \in Dates : CallSlots(d)
    \/ \E text \in Texts, r \in RoleOptions : CallAnalyze(text, r)

PureSpec == Init /\ [][PureNext]_vars

\* ------------------------------------------------------------------- claims
Handler == "Send Email and Schedule Interview"

\* The steps of a script run that leave the process or change the metrics.
EffectSteps ==
    {"send_selection_email", "send_interview_email", "send_rejection_email",
     "token_request", "meeting_request", "update_metrics"}

HasEffect(events) == \E i \in 1..Len(events) : events[i].ev \in EffectSteps

\* The booking of a run returned a meeting link / returned None.
BookingConfirmed(events) ==
    \E i \in 1..Len(events) : events[i] = Ev("meeting_link", "join_url")

BookingFailed(events) ==
    \E i \in 1..Len(events) : events[i] = Ev("meeting_link", None)

RECURSIVE SumOver(_, _)
SumOver(f, S) ==
    IF S = {} THEN 0
    ELSE LET x == CHOOSE y \in S : TRUE IN f[x] + SumOver(f, S \ {x})

\* C1 (as stated): the interviews-scheduled counters, global and per role,
\* change only in a script run whose booking returned a meeting link.
C1_InterviewsCountedOnlyWhenBooked ==
    [][ (\/ metrics'.interviews_scheduled # metrics.interviews_scheduled
         \/ metrics'.interviewed # metrics.interviewed)
        => BookingConfirmed(run'.events) ]_vars

\* C2 (as stated): an evaluation is recorded once.  Once the analysis of a
\* resume has been recorded (it was rejected, or its interview was handled),
\* no step short of a fresh analysis raises total_resumes_uploaded, an
\* application count or a selected counter again.
C2_RecordedOncePerEvaluation ==
    [][ (phase \in {"Rejected", "Notified", "BookingFailed"}
           /\ run'.handler # "Analyze Resume")
        => /\ metrics'.total_resumes_uploaded = metrics.total_resumes_uploaded
           /\ metrics'.applications_by_role = metrics.applications_by_role
           /\ metrics'.selected_candidates = metrics.selected_candidates
           /\ metrics'.selected = metrics.selected ]_vars

\* C3 (as stated): the per-role application counts add up to
\* total_resumes_uploaded, and a role update_metrics was called with N times
\* has an application count of N, the placeholder included.
C3_ApplicationsSumToTotal ==
    /\ SumOver(metrics.applications_by_role, DOMAIN metrics.applications_by_role)
          = metrics.total_resumes_uploaded
    /\ \A r \in RoleOptions :
          recorded[r] > 0 =>
             /\ r \in DOMAIN metrics.applications_by_role
             /\ metrics.applications_by_role[r] = recorded[r]

\* C4 (as stated): the workflow of a candidate only moves forward.  From
\* Rejected, Notified or BookingFailed nothing but a fresh analysis sends
\* mail, posts a booking request or updates the metrics, and the candidate
\* stays where it is.
C4_SingleForwardPass ==
    [][ (phase \in {"Rejected", "Notified", "BookingFailed"}
           /\ run'.handler # "Analyze Resume")
        => /\ ~HasEffect(run'.events)
           /\ phase' \in {phase, "Uploaded", "NoCandidate"} ]_vars

\* C5 (as stated): scheduling an accepted candidate with a booking that
\* succeeds appends one ledger entry, raises interviews_scheduled by one and
\* sends the selection e-mail and the interview e-mail, once each.
C5_FullAcceptedFlow ==
    [][ (phase = "Accepted" /\ run'.handler = Handler
           /\ BookingConfirmed(run'.events))
        => /\ CountEvent(run'.events, "schedule_interview") = 1
           /\ Len(scheduled_interviews') = 1
           /\ metrics'.interviews_scheduled = metrics.interviews_scheduled + 1
           /\ CountEvent(run'.events, "send_selection_email") = 1
           /\ CountEvent(run'.events, "send_interview_email") = 1
           /\ CountEvent(run'.events, "send_rejection_email") = 0 ]_vars

\* C6: a meeting request directly follows a token request that was answered
\* with an access token; after any other token answer schedule_zoom_meeting
\* returns None without a meeting request.
C6_MeetingRequestNeedsToken ==
    LET ev == run.events IN
    \A i \in 1..Len(ev) :
       /\ ev[i].ev = "meeting_request"
             => i > 1 /\ ev[i-1] = Ev("token_request", "access_token")
       /\ (ev[i].ev = "token_request" /\ ev[i].res # "access_token")
             => /\ ~HasEvent(ev, "meeting_request")
                /\ i < Len(ev) /\ ev[i+1] = Ev("meeting_link", None)

\* C6 witness: a booking whose token request came back without a token.
C6_Witness ==
    \E i \in 1..Len(run.events) : run.events[i] = Ev("token_request", "no_access_token")

\* C7: the ledger holds an entry only from a run whose booking returned a
\* link; a run whose booking returned None leaves the ledger empty, sends no
\* interview e-mail and shows the operator the error, not the success message.
C7_LedgerOnlyOnBooking ==
    LET ev == run.events IN
    /\ (Len(scheduled_interviews) > 0 \/ HasEvent(ev, "schedule_interview"))
          => BookingConfirmed(ev)
    /\ BookingFailed(ev)
          => /\ scheduled_interviews = <<>>
             /\ ~HasEvent(ev, "schedule_interview")
             /\ ~HasEvent(ev, "send_interview_email")
             /\ HasEvent(ev, "st.error")
             /\ ~HasEvent(ev, "st.success")

\* C7 witness: the meeting endpoint answered without a join_url.
C7_Witness ==
    \E i \in 1..Len(run.events) : run.events[i] = Ev("meeting_request", "no_join_url")

\* The configuration fields the flow needs.
RequiredConfig == ConfigKeys \ {"openai_api_key"}

\* C8 (as stated): while a required configuration field is empty no script
\* run sends mail, posts a request to Zoom or updates the metrics.
C8_NoEffectWithoutConfiguration ==
    (\E k \in RequiredConfig : config[k] = "") => ~HasEffect(run.events)

\* Position of the first step named `name` in a run, 0 when there is none.
FirstAt(events, name) ==
    IF HasEvent(events, name)
    THEN CHOOSE i \in 1..Len(events) :
            /\ events[i].ev = name
            /\ \A j \in 1..(i-1) : events[j].ev # name
    ELSE 0

\* C9 (as stated): no selection or interview e-mail leaves before the
\* booking of the same run has returned a link.
C9_NoMailBeforeBooking ==
    LET ev == run.events IN
    \A i \in 1..Len(ev) :
       ev[i].ev \in {"send_selection_email", "send_interview_email"}
          => \E j \in 1..(i-1) : ev[j] = Ev("meeting_link", "join_url")

\* C9 (amended): in a scheduling run the selection e-mail leaves first, then
\* the booking is attempted, then - only after the booking returned a link -
\* the interview e-mail leaves and the ledger entry is appended, and
\* update_metrics is the last step.  A failed booking is followed by no
\* interview e-mail.
C9_SelectionMailThenBooking ==
    LET ev == run.events IN
    (run.handler = Handler /\ ev # <<>>)
    => /\ ev[1].ev = "send_selection_email"
       /\ CountEvent(ev, "send_selection_email") = 1
       /\ FirstAt(ev, "token_request") = 2
       /\ \A i \in 1..Len(ev) :
             ev[i].ev \in {"send_interview_email", "schedule_interview"}
                => \E j \in 1..(i-1) : ev[j] = Ev("meeting_link", "join_url")
       /\ FirstAt(ev, "send_interview_email") <= FirstAt(ev, "schedule_interview")
       /\ ev[Len(ev)].ev = "update_metrics"
       /\ CountEvent(ev, "update_metrics") = 1
       /\ BookingFailed(ev) => ~HasEvent(ev, "send_interview_email")

\* C9 witness: the selection e-mail was sent and the booking then failed.
C9_Witness ==
    /\ run.handler = Handler
    /\ run.events # <<>>
    /\ run.events[1] = Ev("send_selection_email", "sent")
    /\ BookingFailed(run.events)

\* C10 (as stated): an analysis that rejects the resume sends one rejection
\* e-mail and nothing else, raises total_resumes_uploaded and the role's
\* application count by one and leaves the selected and interviewed counters.
C10_RejectionRecordedAndMailed ==
    [][ (run'.handler = "Analyze Resume" /\ ~session'.is_selected)
        => /\ CountEvent(run'.events, "send_rejection_email") = 1
           /\ ~HasEvent(run'.events, "send_selection_email")
           /\ ~HasEvent(run'.events, "send_interview_email")
           /\ ~HasEvent(run'.events, "token_request")
           /\ ~HasEvent(run'.events, "meeting_request")
           /\ metrics'.total_resumes_uploaded = metrics.total_resumes_uploaded + 1
           /\ role \in DOMAIN metrics.applications_by_role
           /\ metrics'.applications_by_role =
                 [metrics.applications_by_role EXCEPT ![role] = @ + 1]
           /\ metrics'.selected_candidates = metrics.selected_candidates
           /\ metrics'.interviews_scheduled = metrics.interviews_scheduled
           /\ metrics'.selected = metrics.selected
           /\ metrics'.interviewed = metrics.interviewed ]_vars

\* ------------------------------------------------------------ claims C11-C20
\* s is an initial segment of t.
IsPrefix(s, t) == Len(s) <= Len(t) /\ \A i \in 1..Len(s) : t[i] = s[i]

\* C11 (as stated): the ledger is append-only across script runs: what it
\* held before a step it still holds after it, in the same places.
C11_LedgerAppendOnly ==
    [][ IsPrefix(scheduled_interviews, scheduled_interviews') ]_vars

\* Step e of a run is followed, later in the same run, by a step named name.
FollowedBy(events, e, name) ==
    \A i \in 1..Len(events) :
        events[i] = e => \E j \in (i + 1)..Len(events) : events[j].ev = name

\* C12: an e-mail that could not be sent is not fatal.  After a failed
\* selection e-mail the booking is still attempted and the metrics update
\* still called; after a failed interview e-mail the confirmation, the ledger
\* entry and the metrics update still follow and the ledger holds the entry;
\* a failed rejection e-mail comes after the recording and leaves the
\* decision as it was; and no run that raised did so at an e-mail step: the
\* only exceptions are the KeyError of update_metrics and the unbound local
\* of a scheduling click without a file.
C12_FailedMailNonFatal ==
    /\ FollowedBy(run.events, Ev("send_selection_email", "failed"), "token_request")
    /\ FollowedBy(run.events, Ev("send_selection_email", "failed"), "meeting_link")
    /\ FollowedBy(run.events, Ev("send_selection_email", "failed"), "update_metrics")
    /\ FollowedBy(run.events, Ev("send_interview_email", "failed"), "st.success")
    /\ FollowedBy(run.events, Ev("send_interview_email", "failed"), "schedule_interview")
    /\ FollowedBy(run.events, Ev("send_interview_email", "failed"), "update_metrics")
    /\ (\E i \in 1..Len(run.events) : run.events[i] = Ev("send_interview_email", "failed"))
          => Len(scheduled_interviews) = 1
    /\ (\E i \in 1..Len(run.events) : run.events[i] = Ev("send_selection_email", "failed"))
          => session.is_selected
    /\ (\E i \in 1..Len(run.events) : run.events[i] = Ev("send_rejection_email", "failed"))
          => /\ run.events[Len(run.events)] = Ev("send_rejection_email", "failed")
             /\ run.events[Len(run.events) - 1] = Ev("update_metrics", "recorded")
             /\ ~session.is_selected
             /\ phase = "Rejected"
    /\ run.raised # None
          => \/ /\ run.raised = "KeyError"
                /\ run.events[Len(run.events)].ev = "update_metrics"
             \/ /\ run.raised = "UnboundLocalError"
                /\ run.events = <<>>

\* Both e-mails of one scheduling run failed and the booking went through.
C12_Witness ==
    /\ \E i \in 1..Len(run.events) : run.events[i] = Ev("send_selection_email", "failed")
    /\ \E i \in 1..Len(run.events) : run.events[i] = Ev("send_interview_email", "failed")
    /\ Len(scheduled_interviews) = 1
    /\ run.raised = None

\* C13: in every reachable state selected_candidates is at most
\* total_resumes_uploaded, and for every role the per-role selected count
\* is at most applications_by_role of that role.
C13_SelectedWithinApplications ==
    /\ metrics.selected_candidates <= metrics.total_resumes_uploaded
    /\ \A r \in ROLE_REQUIREMENTS :
          metrics.selected[r] <= metrics.applications_by_role[r]

\* A selection has been counted, next to an application that was rejected.
C13_Witness ==
    /\ metrics.selected_candidates >= 1
    /\ \E r \in ROLE_REQUIREMENTS : metrics.selected[r] >= 1
    /\ metrics.selected_candidates < metrics.total_resumes_uploaded

\* C14: for every date d, available_time_slots(d) returns exactly 8 slots,
\* all on date d, with start hours 9, 10, ..., 16 in strictly increasing
\* order; a second call for the same date returns the same sequence; and
\* the call changes no state of the program.
C14_EightHourlySlots ==
    [][ call'.fn = "available_time_slots" =>
          /\ Len(call'.result) = 8
          /\ \A i \in 1..Len(call'.result) :
                /\ call'.result[i].date = call'.arg
                /\ call'.result[i].hour = 8 + i
          /\ \A i \in 1..(Len(call'.result) - 1) :
                call'.result[i].hour < call'.result[i + 1].hour
          /\ (call.fn = "available_time_slots" /\ call.arg = call'.arg)
                => call'.result = call.result
          /\ UNCHANGED <<role, config, resume_file, session, metrics,
                         scheduled_interviews, run, phase, recorded>> ]_vars

\* The function has been called, and called again.
C14_Witness ==
    /\ call.fn = "available_time_slots"
    /\ call.nth = 2
    /\ Len(call.result) > 0
    /\ call.result[1].date = call.arg

\* Piece by piece: needle stands in text from position k on.
OccursAt(text, needle, k) ==
    /\ k + Len(needle) - 1 <= Len(text)
    /\ \A n \in 1..Len(needle) : text[k + n - 1] = needle[n]

\* C15: analyze_resume(text, role) accepts if and only if the identifier of
\* the role occurs in the text as a contiguous run of characters in the
\* same letter case, and the call changes neither the metrics, the ledger
\* nor the session state.
C15_AcceptIffRoleInText ==
    [][ call'.fn = "analyze_resume" =>
          /\ call'.result =
                (\E k \in 1..(Len(call'.arg[1]) + 1) :
                    OccursAt(call'.arg[1], RoleText(call'.arg[2]), k))
          /\ UNCHANGED <<metrics, scheduled_interviews, session>> ]_vars

\* An acceptance of a text that starts with the identifier's first piece
\* in another letter case and holds the identifier after it.
C15_Witness ==
    /\ call.fn = "analyze_resume"
    /\ call.result
    /\ Len(call.arg[1]) > Len(RoleText(call.arg[2]))
    /\ call.arg[1][1] = "Backend"

CountersWithin(m, n) ==
    /\ m.total_resumes_uploaded <= n.total_resumes_uploaded
    /\ m.selected_candidates <= n.selected_candidates
    /\ m.interviews_scheduled <= n.interviews_scheduled
    /\ \A r \in ROLE_REQUIREMENTS :
          /\ m.applications_by_role[r] <= n.applications_by_role[r]
          /\ m.selected[r] <= n.selected[r]
          /\ m.interviewed[r] <= n.interviewed[r]

C17_MinimumNotice ==
    /\ \A s \in run.slots : s.date >= 3
    /\ \A i \in 1..Len(scheduled_interviews) : scheduled_interviews[i].Date >= 3

\* A booking on the earliest permitted day is in the ledger.
C17_Witness ==
    /\ \E s \in run.slots : s.date = 3
    /\ \E i \in 1..Len(run.events) : run.events[i].ev = "token_request"
    /\ Len(scheduled_interviews) = 1
    /\ scheduled_interviews[1].Date = 3

\* The requests and mail transmissions a script run can issue.
Transmissions ==
    {"token_request", "meeting_request", "send_selection_email",
     "send_interview_email", "send_rejection_email"}

\* C18: nothing is retried: one script run issues at most one token
\* request, at most one meeting-creation request and at most one
\* transmission of each e-mail, whatever their outcome; a script run that
\* no button triggered issues none.
C18_NoAutomaticRetry ==
    /\ \A t \in Transmissions : CountEvent(run.events, t) <= 1
    /\ run.handler \notin {"Analyze Resume", "Send Email and Schedule Interview"}
          => \A t \in Transmissions : CountEvent(run.events, t) = 0

\* A run whose selection e-mail failed and whose token request was refused:
\* neither was sent again, and no meeting request followed.
C18_Witness ==
    /\ \E i \in 1..Len(run.events) : run.events[i] = Ev("token_request", "non2xx")
    /\ \E i \in 1..Len(run.events) : run.events[i] = Ev("send_selection_email", "failed")
    /\ CountEvent(run.events, "meeting_request") = 0

\* C19 (as stated): the role the scheduling handler works with - for the
\* booking, both e-mails, the ledger entry and the metrics update - is the
\* role under which analyze_resume accepted the candidate, which the stored
\* feedback names.
C19_RoleOfTheAcceptance ==
    [][ (run'.handler = Handler /\ HasEffect(run'.events))
            => /\ role' = session.feedback
               /\ \A i \in 1..Len(scheduled_interviews') :
                     scheduled_interviews'[i].Role = session.feedback ]_vars

\* C20 (as stated): once "Add New Application" has been pressed or another
\* resume uploaded, and until that resume has been analysed, the scheduling
\* handler does nothing that leaves the process or changes the metrics.
C20_NoCarriedAcceptance ==
    [][ (phase \in {"Uploaded", "NoCandidate"})
            => ~(run'.handler = Handler /\ HasEffect(run'.events)) ]_vars

\* C21: in every reachable state interviews_scheduled equals
\* selected_candidates, and for every role the role's interviewed counter
\* equals the role's selected counter.
C21_InterviewedEqualsSelected ==
    /\ metrics.interviews_scheduled = metrics.selected_candidates
    /\ \A r \in ROLE_REQUIREMENTS : metrics.interviewed[r] = metrics.selected[r]

\* update_metrics has counted a selection in a run whose booking failed, and
\* a call that raised has left the four counters alone.
C21_Witness ==
    /\ phase = "BookingFailed"
    /\ run.raised = None
    /\ metrics.selected_candidates >= 1
    /\ \E r \in ROLE_REQUIREMENTS : metrics.interviewed[r] >= 1
    /\ recorded["Select a role"] >= 1

====
